---- MODULE Spec2Model ----
(***************************************************************************)
(* A model of spotify_viewer.py: the loader and schema validator           *)
(* (get_data, validate_content), the statistics (most_played_freq,         *)
(* most_played_by_playtime, top_artist_by_playtime), the formatting        *)
(* helpers (ms_to_min, reformat_time) and the control flow of main() with  *)
(* the in-place rewrite done by display_content.                           *)
(*                                                                         *)
(* A Python str is a sequence of one-character strings; a JSON value is a  *)
(* record [kind, n, s] whose kind is the name of its Python type.          *)
(***************************************************************************)
EXTENDS Integers, Sequences, FiniteSets, TLC

VARIABLES
    pc,           \* position in main() / in the function under call
    file,         \* the input file: [status, data]; never written
    content,      \* the local `content`: None or the list object (mutable)
    template,     \* the `template` argument of validate_content
    index,        \* loop index of validate_content (Python, 0-based)
    valid,        \* what validate_content returned: {} (not yet), {TRUE}, {FALSE}
    log,          \* logger.error records emitted by validate_content / _read_file
    top_n,        \* the top_n argument of the last statistics call
    top_freq,     \* result of most_played_freq
    top_playtime, \* result of most_played_by_playtime
    top_artist,   \* result of top_artist_by_playtime
    stats,        \* stats.txt: the sequence of texts written to it, one per open()
    dIndex,       \* position of the first loop of display_content (1-based)
    window,       \* the rows handed to the Treeview, one entry per window shown
    exitCode,     \* {} while running, else the process exit status
    msArg,        \* argument of the last direct ms_to_min call
    msText        \* result of the last direct ms_to_min call

vars == <<pc, file, content, template, index, valid, log, top_n, top_freq,
          top_playtime, top_artist, stats, dIndex, window, exitCode, msArg, msText>>

----------------------------------------------------------------------------
(* Bounds of the model *)

MaxRecs == 3
MaxTopN == 3
MaxMinutes == 59

----------------------------------------------------------------------------
(* Text *)

Digits == <<"0", "1", "2", "3", "4", "5", "6", "7", "8", "9">>

IsDigit(c) == \E d \in 1..10 : Digits[d] = c

DigitVal(c) == (CHOOSE d \in 1..10 : Digits[d] = c) - 1

Min(a, b) == IF a <= b THEN a ELSE b

\* str(n) for n >= 0
RECURSIVE NatStr(_)
NatStr(n) ==
    IF n < 10 THEN <<Digits[n + 1]>>
    ELSE Append(NatStr(n \div 10), Digits[(n % 10) + 1])

\* format(n) as used by an f-string replacement field
IntStr(n) == IF n < 0 THEN <<"-">> \o NatStr(-n) ELSE NatStr(n)

\* "%02d" % n, the zero padding of strftime's %m %d %H %M
Pad2(n) == IF n < 10 THEN <<"0">> \o NatStr(n) ELSE NatStr(n)

\* int(text) of a non-empty run of digits
RECURSIVE DigitsVal(_)
DigitsVal(t) ==
    IF Len(t) = 0 THEN 0
    ELSE 10 * DigitsVal(SubSeq(t, 1, Len(t) - 1)) + DigitVal(t[Len(t)])

----------------------------------------------------------------------------
(* JSON values and the template *)

VStr(t) == [kind |-> "str", n |-> 0, s |-> t]
VInt(i) == [kind |-> "int", n |-> i, s |-> <<>>]
VBool(b) == [kind |-> "bool", n |-> IF b THEN 1 ELSE 0, s |-> <<>>]
VFloat(i) == [kind |-> "float", n |-> i, s |-> <<>>]
VNull == [kind |-> "NoneType", n |-> 0, s |-> <<>>]

\* type(x)
type(x) == x.kind

\* set(d.keys())
keys(d) == DOMAIN d

TEMPLATE ==
    << [endTime |-> VStr(<<>>), artistName |-> VStr(<<>>),
        trackName |-> VStr(<<>>), msPlayed |-> VInt(0)] >>

\* An optional value: None, or a reference to the list
None == [none |-> TRUE, v |-> <<>>]
Some(x) == [none |-> FALSE, v |-> x]

\* Python truthiness of None / a list
Truthy(c) == ~c.none /\ Len(c.v) > 0

----------------------------------------------------------------------------
(* validate_content *)

\* Mismatches with isinstance(entry[key], type(template[0][key])) in place of
\* the comparison of types: a bool is an instance of int.
Mismatches_isinstance(entry, tmpl) ==
    {k \in keys(tmpl[1]) :
        /\ type(entry[k]) # type(tmpl[1][k])
        /\ ~(type(entry[k]) = "bool" /\ type(tmpl[1][k]) = "int")}

\* Mismatches with the numbers taken for one type (int and float alike)
Mismatches_numbers(entry, tmpl) ==
    {k \in keys(tmpl[1]) :
        /\ type(entry[k]) # type(tmpl[1][k])
        /\ ~(type(entry[k]) = "float" /\ type(tmpl[1][k]) = "int")}

\* The keys of the template whose value in `entry` has another type than in
\* the template (line 108), for an entry whose key set already matches.
Mismatches(entry, tmpl) ==
    {k \in keys(tmpl[1]) : type(entry[k]) # type(tmpl[1][k])}

\* EntryAt walking the list from its end
EntryAt_reversed(c, i) == c[Len(c) - i]

\* enumerate(content) (line 102): the entry that goes with Python index i
EntryAt(c, i) == c[i + 1]

\* Lines 97-101: the empty-input rejection, else the loop is entered.
ValidateEnter ==
    /\ pc = "validate"
    /\ IF Len(content.v) = 0 \/ Len(template) = 0
       THEN /\ log' = Append(log, [msg |-> "empty", index |-> 0, key |-> ""])
            /\ valid' = {FALSE}
            /\ pc' = "validated"
            /\ UNCHANGED index
       ELSE /\ index' = 0
            /\ pc' = "validate_loop"
            /\ UNCHANGED <<log, valid>>
    /\ UNCHANGED <<file, content, template, top_n, top_freq, top_playtime,
                   top_artist, stats, dIndex, window, exitCode, msArg, msText>>

\* Lines 102-115: one iteration of the loop over enumerate(content), or its
\* end.  `for key in template_keys` walks a set, whose order is not fixed:
\* the key reported is any of the mismatching ones.
ValidateEntry ==
    /\ pc = "validate_loop"
    /\ IF index >= Len(content.v)
       THEN /\ valid' = {TRUE}
            /\ pc' = "validated"
            /\ UNCHANGED <<log, index>>
       ELSE LET entry == EntryAt(content.v, index) IN
            IF keys(entry) # keys(template[1])
            THEN /\ log' = Append(log, [msg |-> "keys", index |-> index, key |-> ""])
                 /\ valid' = {FALSE}
                 /\ pc' = "validated"
                 /\ UNCHANGED index
            ELSE IF Mismatches(entry, template) # {}
            THEN /\ \E k \in Mismatches(entry, template) :
                      log' = Append(log, [msg |-> "type", index |-> index, key |-> k])
                 /\ valid' = {FALSE}
                 /\ pc' = "validated"
                 /\ UNCHANGED index
            ELSE /\ index' = index + 1
                 /\ UNCHANGED <<log, valid, pc>>
    /\ UNCHANGED <<file, content, template, top_n, top_freq, top_playtime,
                   top_artist, stats, dIndex, window, exitCode, msArg, msText>>

----------------------------------------------------------------------------
(* ms_to_min and reformat_time *)

\* ms_to_min without the remainder: the seconds of the whole duration
ms_to_min_nomod(t) ==
    LET mins == t \div 60000
        sec == t \div 1000
    IN  IntStr(mins) \o <<"m", " ">> \o IntStr(sec) \o <<"s">>

\* Lines 150-152.  Python's // and % floor, as \div and % do.
ms_to_min(t) ==
    LET mins == t \div 60000
        sec == (t % 60000) \div 1000
    IN  IntStr(mins) \o <<"m", " ">> \o IntStr(sec) \o <<"s">>

\* The character at position i of text t, or "" past its end
At(t, i) == IF i >= 1 /\ i <= Len(t) THEN t[i] ELSE ""

\* Length of the run of digits of t that starts at position i
RECURSIVE DigitRun(_, _)
DigitRun(t, i) == IF IsDigit(At(t, i)) THEN 1 + DigitRun(t, i + 1) ELSE 0

\* Length of the run of spaces of t that starts at position i
RECURSIVE SpaceRun(_, _)
SpaceRun(t, i) == IF At(t, i) = " " THEN 1 + SpaceRun(t, i + 1) ELSE 0

IsLeap(y) == (y % 4 = 0 /\ y % 100 # 0) \/ y % 400 = 0

DaysIn(y, m) ==
    IF m = 2 THEN (IF IsLeap(y) THEN 29 ELSE 28)
    ELSE IF m \in {4, 6, 9, 11} THEN 30 ELSE 31

\* datetime.strptime(t, "%Y-%m-%d %H:%M") (line 164): [ok, Y, m, d, H, M].
\* %Y is four digits; %m, %d, %H, %M take one or two digits (%d also a space
\* and one digit), the blank of the format takes one or more blanks, and the
\* whole text must be consumed; the date must exist.  ok = FALSE is ValueError.
strptime(t) ==
    LET bad  == [ok |-> FALSE, Y |-> 0, m |-> 0, d |-> 0, H |-> 0, M |-> 0]
        num(i, n) == DigitsVal(SubSeq(t, i, i + n - 1))
        mLen == DigitRun(t, 6)
        dPos == 6 + mLen + 1
        dPad == IF At(t, dPos) = " " THEN 1 ELSE 0
        dLen == DigitRun(t, dPos + dPad)
        sPos == dPos + dPad + dLen
        sLen == SpaceRun(t, sPos)
        hPos == sPos + sLen
        hLen == DigitRun(t, hPos)
        MPos == hPos + hLen + 1
        MLen == IF Len(t) - MPos + 1 >= 2 /\ At(t, MPos) \in {"0", "1", "2", "3", "4", "5"}
                   /\ IsDigit(At(t, MPos + 1))
                THEN 2 ELSE 1
    IN  IF ~(DigitRun(t, 1) = 4 /\ At(t, 5) = "-") THEN bad
        ELSE IF ~(mLen \in {1, 2} /\ num(6, mLen) \in 1..12 /\ At(t, 6 + mLen) = "-") THEN bad
        ELSE IF ~(dLen \in {1, 2} /\ (dPad = 1 => dLen = 1) /\ num(dPos + dPad, dLen) \in 1..31) THEN bad
        ELSE IF ~(sLen >= 1) THEN bad
        ELSE IF ~(hLen \in {1, 2} /\ num(hPos, hLen) \in 0..23 /\ At(t, hPos + hLen) = ":") THEN bad
        ELSE IF ~(IsDigit(At(t, MPos)) /\ MPos + MLen - 1 = Len(t)) THEN bad
        ELSE IF ~(num(1, 4) >= 1 /\ num(dPos + dPad, dLen) <= DaysIn(num(1, 4), num(6, mLen))) THEN bad
        ELSE [ok |-> TRUE, Y |-> num(1, 4), m |-> num(6, mLen), d |-> num(dPos + dPad, dLen),
              H |-> num(hPos, hLen), M |-> num(MPos, MLen)]

\* strftime with the format "%d-%m-%Y %H:%M": day and month swapped
strftime_dmy(dt) ==
    Pad2(dt.d) \o <<"-">> \o Pad2(dt.m) \o <<"-">> \o NatStr(dt.Y) \o <<" ">>
        \o Pad2(dt.H) \o <<":">> \o Pad2(dt.M)

\* dt.strftime("%m-%d-%Y %H:%M") (line 165), for the years >= 1000 of the inputs
strftime(dt) ==
    Pad2(dt.m) \o <<"-">> \o Pad2(dt.d) \o <<"-">> \o NatStr(dt.Y) \o <<" ">>
        \o Pad2(dt.H) \o <<":">> \o Pad2(dt.M)

\* Lines 164-165; applies only where strptime does not raise
reformat_time(time_str) == strftime(strptime(time_str))

----------------------------------------------------------------------------
(* Statistics *)

\* Position of key k in the ordered dict `items` (pairs <<key, value>>), 0 if absent
Find(items, k) ==
    IF \E i \in 1..Len(items) : items[i][1] = k
    THEN CHOOSE i \in 1..Len(items) : items[i][1] = k
    ELSE 0

\* d[k] += v on a dict that keeps insertion order (Counter, defaultdict(int))
Add(items, k, v) ==
    IF Find(items, k) = 0 THEN Append(items, <<k, v>>)
    ELSE [items EXCEPT ![Find(items, k)] = <<k, @[2] + v>>]

\* Counter(track_names) (line 215): one count per name, in first-seen order
RECURSIVE Counter(_)
Counter(names) ==
    IF Len(names) = 0 THEN <<>>
    ELSE Add(Counter(SubSeq(names, 1, Len(names) - 1)), names[Len(names)], 1)

\* The sums of msPlayed per value of `field` (lines 220-225, 232-237)
RECURSIVE Playtimes(_, _)
Playtimes(recs, field) ==
    IF Len(recs) = 0 THEN <<>>
    ELSE Add(Playtimes(SubSeq(recs, 1, Len(recs) - 1), field),
             recs[Len(recs)][field].s, recs[Len(recs)].msPlayed.n)

\* InsertSorted that puts e before the entries of its own value: a sort that
\* reverses the input order of equal values
InsertSorted_unstable(sorted, e) ==
    LET ahead == Cardinality({i \in 1..Len(sorted) : sorted[i][2] > e[2]})
    IN  SubSeq(sorted, 1, ahead) \o <<e>> \o SubSeq(sorted, ahead + 1, Len(sorted))

\* Insert e into a list sorted by descending value, after every entry whose
\* value is >= its own: the step of a stable sort.
InsertSorted(sorted, e) ==
    LET ahead == Cardinality({i \in 1..Len(sorted) : sorted[i][2] >= e[2]})
    IN  SubSeq(sorted, 1, ahead) \o <<e>> \o SubSeq(sorted, ahead + 1, Len(sorted))

\* sorted(items, key=lambda x: x[1], reverse=True) (lines 227, 239): stable
RECURSIVE SortedDesc(_)
SortedDesc(items) ==
    IF Len(items) = 0 THEN <<>>
    ELSE InsertSorted(SortedDesc(SubSeq(items, 1, Len(items) - 1)), items[Len(items)])

\* seq[:n] for n >= 0
Take(seq, n) == SubSeq(seq, 1, Min(n, Len(seq)))

\* most_played_freq taking the first n items of the Counter as they come
most_played_freq_unsorted(recs, n) ==
    LET track_names == [i \in 1..Len(recs) |-> recs[i].trackName.s]
    IN  Take(Counter(track_names), n)

\* Lines 214-216.  Counter.most_common(n) is heapq.nlargest(n, items, key=count),
\* which returns what sorted(items, key=count, reverse=True)[:n] returns.
most_played_freq(recs, n) ==
    LET track_names == [i \in 1..Len(recs) |-> recs[i].trackName.s]
    IN  Take(SortedDesc(Counter(track_names)), n)

\* most_played_by_playtime without the slice [:top_n]
most_played_by_playtime_all(recs, n) == SortedDesc(Playtimes(recs, "trackName"))

\* Lines 219-228
most_played_by_playtime(recs, n) == Take(SortedDesc(Playtimes(recs, "trackName")), n)

\* Lines 231-240
top_artist_by_playtime(recs, n) == Take(SortedDesc(Playtimes(recs, "artistName")), n)

----------------------------------------------------------------------------
(* Inputs *)

T_ISO == <<"2","0","2","3","-","0","1","-","0","5"," ","1","4",":","3","0">>
T_LOOSE == <<"2","0","2","4","-","2","-","2","9"," ","9",":","0","5">>
T_SLASH == <<"2","0","2","3","/","0","1","/","0","5"," ","1","4",":","3","0">>

Rec(t, artist, track, played) ==
    [endTime |-> VStr(t), artistName |-> VStr(artist), trackName |-> VStr(track),
     msPlayed |-> played]

\* Entries of the shape of the template
Conforming ==
    { Rec(T_ISO, <<"X">>, <<"A">>, VInt(30000)),
      Rec(T_ISO, <<"Y">>, <<"B">>, VInt(600000)),
      Rec(T_LOOSE, <<"X">>, <<"B">>, VInt(65000)),
      Rec(T_ISO, <<"Y">>, <<"C">>, VInt(30000)),
      Rec(T_SLASH, <<"X">>, <<"A">>, VInt(0)),
      Rec(T_ISO, <<"X">>, <<"C">>, VInt(-61000)) }

\* Entries with a field missing, a field too many, or a value of another type
Deviating ==
    { [endTime |-> VStr(T_ISO), artistName |-> VStr(<<"X">>), trackName |-> VStr(<<"A">>)],
      [endTime |-> VStr(T_ISO), artistName |-> VStr(<<"X">>), trackName |-> VStr(<<"A">>),
       msPlayed |-> VInt(30000), platform |-> VStr(<<"w">>)],
      Rec(T_ISO, <<"X">>, <<"A">>, VBool(TRUE)),
      Rec(T_ISO, <<"X">>, <<"A">>, VFloat(30000)),
      [endTime |-> VStr(T_ISO), artistName |-> VStr(<<"X">>), trackName |-> VNull,
       msPlayed |-> VStr(<<"1">>)] }

Entries == Conforming \cup Deviating

\* Every JSON array of at most MaxRecs of these entries
ShortInputs == UNION {[1..n -> Entries] : n \in 0..MaxRecs}

\* default of top_n (lines 212, 219, 231)
TOP_N == 10

\* Arrays with more distinct tracks and artists than TOP_N: entry i plays
\* track Ti, the artists R0..R10 in turn, the play times not in input order.
LongInput(n) ==
    [i \in 1..n |-> Rec(T_ISO, <<"R">> \o NatStr(i % (TOP_N + 1)), <<"T">> \o NatStr(i),
                        VInt(1000 * ((i * 7) % 5))) ]

LongInputs == {LongInput(TOP_N + k) : k \in 1..2}

Files ==
    {[status |-> st, data |-> <<>>] : st \in {"missing", "invalid_json", "unreadable"}}
    \cup {[status |-> "ok", data |-> d] : d \in ShortInputs \cup LongInputs}

\* A template argument: none, the program's, and one of three text fields
Templates ==
    { <<>>, TEMPLATE,
      << [endTime |-> VStr(<<>>), artistName |-> VStr(<<>>), trackName |-> VStr(<<>>)] >> }

\* Arguments of ms_to_min: every whole second up to MaxMinutes minutes, with
\* 0, 1 and 999 ms over it, and some negative durations
MsInputs ==
    {m * 60000 + sec * 1000 + r : m \in 0..MaxMinutes, sec \in 0..59, r \in {0, 1, 999}}
    \cup {-1, -1000, -61000}

----------------------------------------------------------------------------
(* main() *)

\* "  {index + 1}. {key} - {value}" (lines 270, 274, 278)
Line(i, key, value) ==
    <<" ", " ">> \o NatStr(i) \o <<".", " ">> \o key \o <<" ", "-", " ">> \o value

\* What lines 268-278 write: the three sections, a list of lines each
Report(freq, playtime, artist) ==
    [most_played |-> [i \in 1..Len(freq) |-> Line(i, freq[i][1], IntStr(freq[i][2]))],
     by_playtime |-> [i \in 1..Len(playtime) |->
                        Line(i, playtime[i][1], ms_to_min(playtime[i][2]))],
     artists     |-> [i \in 1..Len(artist) |->
                        Line(i, artist[i][1], ms_to_min(artist[i][2]))]]

\* get_data line 127, _read_file lines 69-82
ReadFile ==
    /\ pc = "read"
    /\ IF file.status = "ok"
       THEN content' = Some(file.data) /\ UNCHANGED log
       ELSE /\ content' = None
            /\ log' = Append(log, [msg |-> file.status, index |-> 0, key |-> ""])
    /\ pc' = "get_data"
    /\ UNCHANGED <<file, template, index, valid, top_n, top_freq, top_playtime,
                   top_artist, stats, dIndex, window, exitCode, msArg, msText>>

\* get_data lines 129-132: nothing read, or an empty array, returns None
GetDataCheck ==
    /\ pc = "get_data"
    /\ IF Truthy(content)
       THEN pc' = "validate" /\ UNCHANGED content
       ELSE pc' = "main" /\ content' = None
    /\ UNCHANGED <<file, template, index, valid, log, top_n, top_freq, top_playtime,
                   top_artist, stats, dIndex, window, exitCode, msArg, msText>>

\* get_data lines 132-137 and the assignment of line 255
GetDataReturn ==
    /\ pc = "validated"
    /\ IF valid = {TRUE}
       THEN UNCHANGED <<content, log>>
       ELSE /\ content' = None
            /\ log' = Append(log, [msg |-> "could_not_load", index |-> 0, key |-> ""])
    /\ pc' = "main"
    /\ UNCHANGED <<file, template, index, valid, top_n, top_freq, top_playtime,
                   top_artist, stats, dIndex, window, exitCode, msArg, msText>>

\* MainBranch leaving with status 0 when there is no content
MainBranch_exit0 ==
    /\ pc = "main"
    /\ IF Truthy(content)
       THEN pc' = "freq" /\ UNCHANGED exitCode
       ELSE pc' = "exited" /\ exitCode' = {0}
    /\ UNCHANGED <<file, content, template, index, valid, log, top_n, top_freq,
                   top_playtime, top_artist, stats, dIndex, window, msArg, msText>>

\* main lines 257 and 282-284
MainBranch ==
    /\ pc = "main"
    /\ IF Truthy(content)
       THEN pc' = "freq" /\ UNCHANGED exitCode
       ELSE pc' = "exited" /\ exitCode' = {1}
    /\ UNCHANGED <<file, content, template, index, valid, log, top_n, top_freq,
                   top_playtime, top_artist, stats, dIndex, window, msArg, msText>>

\* main line 260
ComputeFreq ==
    /\ pc = "freq"
    /\ top_freq' = most_played_freq(content.v, TOP_N)
    /\ top_n' = TOP_N
    /\ pc' = "playtime"
    /\ UNCHANGED <<file, content, template, index, valid, log, top_playtime,
                   top_artist, stats, dIndex, window, exitCode, msArg, msText>>

\* main line 261
ComputePlaytime ==
    /\ pc = "playtime"
    /\ top_playtime' = most_played_by_playtime(content.v, TOP_N)
    /\ pc' = "artist"
    /\ UNCHANGED <<file, content, template, index, valid, log, top_n, top_freq,
                   top_artist, stats, dIndex, window, exitCode, msArg, msText>>

\* main line 262
ComputeArtist ==
    /\ pc = "artist"
    /\ top_artist' = top_artist_by_playtime(content.v, TOP_N)
    /\ pc' = "write"
    /\ UNCHANGED <<file, content, template, index, valid, log, top_n, top_freq,
                   top_playtime, stats, dIndex, window, exitCode, msArg, msText>>

\* main lines 264-278
WriteStats ==
    /\ pc = "write"
    /\ stats' = Append(stats, Report(top_freq, top_playtime, top_artist))
    /\ pc' = "display"
    /\ UNCHANGED <<file, content, template, index, valid, log, top_n, top_freq,
                   top_playtime, top_artist, dIndex, window, exitCode, msArg, msText>>

\* NormalizeEntry with the ValueError caught and the entry left as it is
NormalizeEntry_skip ==
    /\ pc = "display"
    /\ IF dIndex > Len(content.v)
       THEN pc' = "window" /\ UNCHANGED <<content, dIndex, exitCode>>
       ELSE LET entry == content.v[dIndex] IN
            IF ~strptime(entry.endTime.s).ok
            THEN dIndex' = dIndex + 1 /\ UNCHANGED <<pc, exitCode, content>>
            ELSE /\ content' = Some([content.v EXCEPT ![dIndex] =
                        [entry EXCEPT !.endTime = VStr(reformat_time(entry.endTime.s)),
                                      !.msPlayed = VStr(ms_to_min(entry.msPlayed.n))]])
                 /\ dIndex' = dIndex + 1
                 /\ UNCHANGED <<pc, exitCode>>
    /\ UNCHANGED <<file, template, index, valid, log, top_n, top_freq,
                   top_playtime, top_artist, stats, window, msArg, msText>>

\* display_content lines 175-177: one iteration of the first loop, or its end.
\* The ValueError of strptime is caught nowhere: the process ends with a
\* traceback and status 1, the entry at hand not yet assigned.
NormalizeEntry ==
    /\ pc = "display"
    /\ IF dIndex > Len(content.v)
       THEN pc' = "window" /\ UNCHANGED <<content, dIndex, exitCode>>
       ELSE LET entry == content.v[dIndex] IN
            IF ~strptime(entry.endTime.s).ok
            THEN pc' = "crashed" /\ exitCode' = {1} /\ UNCHANGED <<content, dIndex>>
            ELSE /\ content' = Some([content.v EXCEPT ![dIndex] =
                        [entry EXCEPT !.endTime = VStr(reformat_time(entry.endTime.s)),
                                      !.msPlayed = VStr(ms_to_min(entry.msPlayed.n))]])
                 /\ dIndex' = dIndex + 1
                 /\ UNCHANGED <<pc, exitCode>>
    /\ UNCHANGED <<file, template, index, valid, log, top_n, top_freq,
                   top_playtime, top_artist, stats, window, msArg, msText>>

\* display_content lines 179-204: the window with one row per entry; main
\* returns when it is closed
ShowWindow ==
    /\ pc = "window"
    /\ window' = Append(window, content.v)
    /\ pc' = "done"
    /\ exitCode' = {0}
    /\ UNCHANGED <<file, content, template, index, valid, log, top_n, top_freq,
                   top_playtime, top_artist, stats, dIndex, msArg, msText>>

----------------------------------------------------------------------------
(* Direct calls of the library functions *)

\* most_played_freq(content, n) on a list validate_content accepted
CallFreq ==
    /\ pc = "validated" /\ valid = {TRUE} /\ template = TEMPLATE
    /\ \E n \in 1..MaxTopN :
          /\ top_n' = n
          /\ top_freq' = most_played_freq(content.v, n)
    /\ pc' = "called"
    /\ UNCHANGED <<file, content, template, index, valid, log, top_playtime,
                   top_artist, stats, dIndex, window, exitCode, msArg, msText>>

\* ms_to_min(msArg)
CallMsToMin ==
    /\ pc = "format"
    /\ msText' = ms_to_min(msArg)
    /\ pc' = "called"
    /\ UNCHANGED <<file, content, template, index, valid, log, top_n, top_freq,
                   top_playtime, top_artist, stats, dIndex, window, exitCode, msArg>>

----------------------------------------------------------------------------
(* Specifications *)

Fresh ==
    /\ index = 0 /\ valid = {} /\ log = <<>>
    /\ top_n = TOP_N /\ top_freq = <<>> /\ top_playtime = <<>> /\ top_artist = <<>>
    /\ stats = <<>> /\ dIndex = 1 /\ window = <<>> /\ exitCode = {}
    /\ msText = <<>>

\* A run of the program on one file
Init ==
    /\ pc = "read"
    /\ file \in Files
    /\ content = None
    /\ template = TEMPLATE
    /\ msArg = 0
    /\ Fresh

Next ==
    \/ ReadFile \/ GetDataCheck \/ ValidateEnter \/ ValidateEntry \/ GetDataReturn
    \/ MainBranch \/ ComputeFreq \/ ComputePlaytime \/ ComputeArtist \/ WriteStats
    \/ NormalizeEntry \/ ShowWindow

Spec == Init /\ [][Next]_vars

\* validate_content called on any array and template, then most_played_freq
InitLib ==
    /\ pc = "validate"
    /\ \E d \in ShortInputs : file = [status |-> "ok", data |-> d] /\ content = Some(d)
    /\ template \in Templates
    /\ msArg = 0
    /\ Fresh

NextLib == ValidateEnter \/ ValidateEntry \/ CallFreq

SpecLib == InitLib /\ [][NextLib]_vars

\* ms_to_min called on any duration
InitFmt ==
    /\ pc = "format"
    /\ file = [status |-> "missing", data |-> <<>>]
    /\ content = None
    /\ template = TEMPLATE
    /\ msArg \in MsInputs
    /\ Fresh

NextFmt == CallMsToMin

SpecFmt == InitFmt /\ [][NextFmt]_vars

----------------------------------------------------------------------------
(* Properties of validate_content *)

\* The entry has exactly the fields of the template's first element, each
\* value of exactly the type the template has there.
SameShape(entry, tmpl) ==
    /\ DOMAIN entry = DOMAIN tmpl[1]
    /\ \A k \in DOMAIN tmpl[1] : entry[k].kind = tmpl[1][k].kind

\* Python indexes of the entries of the argument that are not of that shape
Offenders ==
    IF Len(template) = 0 THEN {}
    ELSE {i \in 0..(Len(file.data) - 1) : ~SameShape(file.data[i + 1], template)}

Lowest(S) == CHOOSE i \in S : \A j \in S : i <= j

\* C1: validate_content(records, template) returns True exactly when records
\* is not empty, template is not empty, and every record has exactly the
\* template's field names with exactly the template's value types; against
\* TEMPLATE that is text for endTime, artistName and trackName and a plain
\* int (never a bool) for msPlayed.  An empty argument always gives False.
C1_ValidateIff ==
    /\ valid # {} =>
          ( valid = {TRUE} <=>
              /\ Len(file.data) > 0
              /\ Len(template) > 0
              /\ \A i \in 1..Len(file.data) : SameShape(file.data[i], template) )
    /\ (valid = {TRUE} /\ template = TEMPLATE) =>
          \A i \in 1..Len(file.data) :
             /\ DOMAIN file.data[i] = {"endTime", "artistName", "trackName", "msPlayed"}
             /\ file.data[i].endTime.kind = "str"
             /\ file.data[i].artistName.kind = "str"
             /\ file.data[i].trackName.kind = "str"
             /\ file.data[i].msPlayed.kind = "int"

\* A conforming entry followed by one whose msPlayed is a bool: rejected
C1_Witness ==
    /\ pc = "validated" /\ valid = {FALSE} /\ template = TEMPLATE
    /\ Len(file.data) = 2
    /\ SameShape(file.data[1], template)
    /\ DOMAIN file.data[2] = DOMAIN template[1]
    /\ file.data[2].msPlayed.kind = "bool"

\* C2: when a non-empty list is rejected, the one index reported is the
\* smallest index of an entry that is not of the template's shape; the loop
\* never goes past that entry, and the entries before it are of the shape.
C2_FirstOffender ==
    /\ Offenders # {} => index <= Lowest(Offenders)
    /\ (valid = {FALSE} /\ Len(file.data) > 0 /\ Len(template) > 0) =>
          /\ Offenders # {}
          /\ Len(log) = 1
          /\ log[1].msg \in {"keys", "type"}
          /\ log[1].index = Lowest(Offenders)
          /\ index = log[1].index
          /\ \A i \in 1..log[1].index : SameShape(file.data[i], template)

\* Rejected at index 1 of three entries, the last one offending too
C2_Witness ==
    /\ pc = "validated" /\ valid = {FALSE} /\ template = TEMPLATE
    /\ Len(file.data) = 3
    /\ Offenders = {1, 2}
    /\ log[1].index = 1

\* C9 as stated: every entry of an accepted list has msPlayed >= 0.
C9_NonNegative ==
    (valid = {TRUE} /\ template = TEMPLATE) =>
        \A i \in 1..Len(file.data) : file.data[i].msPlayed.n >= 0

\* C9, amended: every entry of an accepted list has an msPlayed that is a
\* plain int, of either sign: the sums the statistics return are the sums of
\* those ints, negative ones included.
C9_IntOfAnySign ==
    (valid = {TRUE} /\ template = TEMPLATE) =>
        /\ \A i \in 1..Len(file.data) :
              /\ file.data[i].msPlayed.kind = "int"
              /\ file.data[i].msPlayed.s = <<>>
        /\ \A j \in 1..Len(top_playtime) :
              top_playtime[j][2] < 0 =>
                  \E i \in 1..Len(file.data) :
                      /\ file.data[i].trackName.s = top_playtime[j][1]
                      /\ file.data[i].msPlayed.n < 0

\* An accepted list with a negative msPlayed, whose sum reached the report
C9_Witness ==
    /\ pc = "done" /\ valid = {TRUE}
    /\ \E i \in 1..Len(file.data) : file.data[i].msPlayed.n < 0
    /\ \E j \in 1..Len(top_playtime) : top_playtime[j][2] < 0

----------------------------------------------------------------------------
(* Properties of the statistics *)

TrackOf(recs, i) == recs[i].trackName.s

TracksOf(recs) == {TrackOf(recs, i) : i \in 1..Len(recs)}

\* Number of entries of recs that play track k
Plays(recs, k) == Cardinality({i \in 1..Len(recs) : TrackOf(recs, i) = k})

\* Index of the first entry of recs that plays track k
FirstPlay(recs, k) ==
    CHOOSE i \in 1..Len(recs) :
        /\ TrackOf(recs, i) = k
        /\ \A j \in 1..(i - 1) : TrackOf(recs, j) # k

KeysOf(ranking) == {ranking[i][1] : i \in 1..Len(ranking)}

\* Sum of the msPlayed of the first n entries of recs whose `field` is k
RECURSIVE Played(_, _, _, _)
Played(recs, field, k, n) ==
    IF n = 0 THEN 0
    ELSE Played(recs, field, k, n - 1)
         + (IF recs[n][field].s = k THEN recs[n].msPlayed.n ELSE 0)

\* ranking holds the n best, by `score`, of the keys `all`: as many entries
\* as min(n, number of keys), no key twice, each with its score, the scores
\* not increasing, no key left out with a higher score than one kept.
IsTop(ranking, n, all, score(_)) ==
    /\ Len(ranking) = Min(n, Cardinality(all))
    /\ KeysOf(ranking) \subseteq all
    /\ \A i, j \in 1..Len(ranking) : i # j => ranking[i][1] # ranking[j][1]
    /\ \A i \in 1..Len(ranking) : ranking[i][2] = score(ranking[i][1])
    /\ \A i \in 1..(Len(ranking) - 1) : ranking[i][2] >= ranking[i + 1][2]
    /\ \A k \in all \ KeysOf(ranking) :
          \A i \in 1..Len(ranking) : score(k) <= ranking[i][2]

\* C6: on a non-empty validated list and top_n >= 1, most_played_freq
\* returns min(top_n, number of distinct trackName) entries with distinct
\* keys, each scored with the number of entries of that trackName, scores not
\* increasing, and no track left out that has more plays than one returned.
C6_FreqRanking ==
    pc = "called" =>
        LET count(k) == Plays(file.data, k)
        IN  IsTop(top_freq, top_n, TracksOf(file.data), count)

\* Three tracks, one of them played twice, top_n = 2: one track is cut
C6_Witness ==
    /\ pc = "called" /\ top_n = 2
    /\ Cardinality(TracksOf(file.data)) = 3
    /\ Len(top_freq) = 2
    /\ top_freq[1][2] = 1

\* C7: among tracks with the same count, the one first seen earlier in the
\* input comes earlier in the ranking, and at the cut it is the one kept.
\* (With C6 this fixes the ranking as a function of the input.)
C7_TiesFirstSeen ==
    pc = "called" =>
        /\ \A i, j \in 1..Len(top_freq) :
              (i < j /\ top_freq[i][2] = top_freq[j][2]) =>
                  FirstPlay(file.data, top_freq[i][1]) < FirstPlay(file.data, top_freq[j][1])
        /\ \A k \in TracksOf(file.data) \ KeysOf(top_freq) :
              \A i \in 1..Len(top_freq) :
                  Plays(file.data, k) = top_freq[i][2] =>
                      FirstPlay(file.data, top_freq[i][1]) < FirstPlay(file.data, k)

\* Three tracks played once each, top_n = 2: a tie inside and at the cut
C7_Witness ==
    /\ pc = "called" /\ top_n = 2
    /\ Len(file.data) = 3
    /\ Cardinality(TracksOf(file.data)) = 3
    /\ top_freq = <<<<TrackOf(file.data, 1), 1>>, <<TrackOf(file.data, 2), 1>>>>

\* C10: the three rankings are computed while the list still holds what was
\* read; each score of top_playtime (top_artist) is the sum of the original
\* msPlayed of the entries with that trackName (artistName), the scores
\* descend, and the ranking holds min(TOP_N, number of keys) entries.
C10_RankingsOnRaw ==
    /\ pc \in {"freq", "playtime", "artist", "write"} => content.v = file.data
    /\ pc \in {"artist", "write", "display", "window", "done", "crashed"} =>
          LET total(k) == Played(file.data, "trackName", k, Len(file.data))
          IN  IsTop(top_playtime, TOP_N, TracksOf(file.data), total)
    /\ pc \in {"write", "display", "window", "done", "crashed"} =>
          LET total(k) == Played(file.data, "artistName", k, Len(file.data))
              artists == {file.data[i].artistName.s : i \in 1..Len(file.data)}
          IN  IsTop(top_artist, TOP_N, artists, total)

\* A finished run on more than TOP_N tracks and artists: both rankings cut,
\* the list rewritten since
C10_Witness ==
    /\ pc = "done"
    /\ Cardinality(TracksOf(file.data)) > TOP_N
    /\ Len(top_playtime) = TOP_N /\ Len(top_artist) = TOP_N
    /\ top_playtime[1][2] > top_playtime[TOP_N][2]
    /\ content.v # file.data

----------------------------------------------------------------------------
(* Properties of a run of main() *)

\* The run has gone past the writing of stats.txt
PastReport == pc \in {"display", "window", "done", "crashed"}

\* C3: a run whose file cannot be loaded, or whose content validate_content
\* rejects, ends with exit status 1 and never reaches the report or the
\* display: stats.txt is not written, no window is shown.  (An empty array,
\* which get_data turns away at line 129, goes the same way.)  A run whose
\* content is loaded and accepted writes the report exactly once.
C3_GateBeforeOutput ==
    /\ (file.status # "ok" \/ valid = {FALSE} \/ Len(file.data) = 0) =>
          /\ stats = <<>> /\ window = <<>>
          /\ pc \notin {"freq", "playtime", "artist", "write", "display",
                         "window", "done", "crashed"}
          /\ exitCode \subseteq {1}
          /\ pc = "exited" => exitCode = {1}
    /\ (file.status = "ok" /\ valid = {TRUE}) =>
          /\ Len(stats) = (IF PastReport THEN 1 ELSE 0)
          /\ pc \in {"done", "crashed"} => Len(stats) = 1

\* A run ended with status 1 on an entry that lacks msPlayed
C3_Witness ==
    /\ pc = "exited" /\ exitCode = {1} /\ valid = {FALSE}
    /\ stats = <<>> /\ window = <<>>
    /\ \E i \in 1..Len(file.data) :
          /\ log[1].index = i - 1
          /\ "msPlayed" \notin DOMAIN file.data[i]

\* The text has the form YYYY-MM-DD HH:MM, digit for digit
StrictPattern(t) ==
    /\ Len(t) = 16
    /\ \A i \in {1, 2, 3, 4, 6, 7, 9, 10, 12, 13, 15, 16} : IsDigit(t[i])
    /\ t[5] = "-" /\ t[8] = "-" /\ t[11] = " " /\ t[14] = ":"

\* C4 as stated: when an entry of the accepted list has an endTime that is
\* not of the form YYYY-MM-DD HH:MM, no report is written and no window shown.
C4_NoOutputOnBadTime ==
    (valid = {TRUE} /\ \E i \in 1..Len(file.data) : ~StrictPattern(file.data[i].endTime.s)) =>
        stats = <<>> /\ window = <<>>

\* Positions of the entries whose endTime strptime rejects
Unparseable == {i \in 1..Len(file.data) : ~strptime(file.data[i].endTime.s).ok}

\* C4, amended: when strptime rejects the endTime of an entry of the accepted
\* list (a text such as 2023/01/05 14:30), the run stops at that entry with
\* the uncaught ValueError, status 1, and never shows a window; stats.txt has
\* been written by then, once.
C4_BadTimeStopsDisplay ==
    (valid = {TRUE} /\ Unparseable # {}) =>
        /\ window = <<>>
        /\ pc \notin {"window", "done"}
        /\ exitCode \subseteq {1}
        /\ dIndex <= Lowest(Unparseable)
        /\ pc = "crashed" =>
              /\ exitCode = {1}
              /\ dIndex = Lowest(Unparseable)
              /\ Len(stats) = 1

\* The ValueError raised at the second entry, after the report
C4_Witness ==
    /\ pc = "crashed" /\ exitCode = {1}
    /\ dIndex = 2
    /\ file.data[2].endTime.s = T_SLASH
    /\ Len(stats) = 1 /\ Len(stats[1].most_played) >= 1
    /\ window = <<>>

\* C5 as stated: the validated list is read-only after validation; every
\* entry keeps its endTime text and its integer msPlayed.
C5_InputUntouched ==
    (valid = {TRUE} /\ ~content.none) => content.v = file.data

T_US == <<"0","1","-","0","5","-","2","0","2","3"," ","1","4",":","3","0">>

\* C5, amended: display_content rewrites the list in place, entry by entry.
\* Every entry its loop has passed holds the reformatted endTime (another
\* text than the original: 01-05-2023 14:30 for 2023-01-05 14:30) and the
\* duration text in msPlayed (1m 5s for 65000); the entry at which it fails
\* and those after it are as read; artistName and trackName never change;
\* nothing before display_content changes the list.
C5_RewritesInPlace ==
    (valid = {TRUE} /\ ~content.none) =>
        /\ Len(content.v) = Len(file.data)
        /\ \A i \in 1..Len(file.data) :
              /\ DOMAIN content.v[i] = DOMAIN file.data[i]
              /\ content.v[i].artistName = file.data[i].artistName
              /\ content.v[i].trackName = file.data[i].trackName
        /\ \A i \in 1..(dIndex - 1) :
              /\ content.v[i].endTime.kind = "str"
              /\ content.v[i].endTime.s # file.data[i].endTime.s
              /\ file.data[i].endTime.s = T_ISO => content.v[i].endTime.s = T_US
              /\ content.v[i].msPlayed.kind = "str"
              /\ file.data[i].msPlayed.n = 65000 =>
                    content.v[i].msPlayed.s = <<"1", "m", " ", "5", "s">>
        /\ \A i \in dIndex..Len(file.data) : content.v[i] = file.data[i]
        /\ dIndex > 1 => PastReport

\* display_content failed at the third entry: two rewritten, one as read
C5_Witness ==
    /\ pc = "crashed" /\ dIndex = 3 /\ Len(file.data) = 3
    /\ content.v[1].msPlayed.kind = "str" /\ content.v[2].msPlayed.kind = "str"
    /\ content.v[1].endTime.s = T_US
    /\ content.v[3] = file.data[3]

----------------------------------------------------------------------------
(* Properties of ms_to_min *)

\* Position of the first "m" of text t
PosM(t) == CHOOSE k \in 1..Len(t) : t[k] = "m" /\ \A j \in 1..(k - 1) : t[j] # "m"

\* t is a decimal numeral: digits, no needless leading zero
IsNumeral(t) ==
    /\ Len(t) >= 1
    /\ \A i \in 1..Len(t) : IsDigit(t[i])
    /\ Len(t) > 1 => t[1] # "0"

\* C8: for ms >= 0, ms_to_min(ms) is "<minutes>m <seconds>s" with
\* minutes = ms div 60000 and seconds = (ms mod 60000) div 1000, not rounded:
\* seconds is in 0..59 and
\* minutes*60000 + seconds*1000 <= ms < minutes*60000 + seconds*1000 + 1000;
\* 0 gives 0m 0s, 65000 gives 1m 5s, 3599999 gives 59m 59s.
C8_MinutesSeconds ==
    (pc = "called" /\ msArg >= 0) =>
        /\ \E k \in 1..Len(msText) : msText[k] = "m"
        /\ LET k == PosM(msText)
               minText == SubSeq(msText, 1, k - 1)
               secText == SubSeq(msText, k + 2, Len(msText) - 1)
               mins == DigitsVal(minText)
               sec == DigitsVal(secText)
           IN  /\ IsNumeral(minText) /\ IsNumeral(secText)
               /\ At(msText, k + 1) = " "
               /\ msText[Len(msText)] = "s"
               /\ mins = msArg \div 60000
               /\ sec = (msArg % 60000) \div 1000
               /\ sec \in 0..59
               /\ mins * 60000 + sec * 1000 <= msArg
               /\ msArg < mins * 60000 + sec * 1000 + 1000
        /\ msArg = 0 => msText = <<"0", "m", " ", "0", "s">>
        /\ msArg = 65000 => msText = <<"1", "m", " ", "5", "s">>
        /\ msArg = 3599999 => msText = <<"5", "9", "m", " ", "5", "9", "s">>

\* One millisecond short of an hour, rendered
C8_Witness ==
    /\ pc = "called" /\ msArg = 3599999
    /\ msText = <<"5", "9", "m", " ", "5", "9", "s">>

====
